---- MODULE Spec2Model ----
(***************************************************************************)
(* Model of the path-safety and file-action layer of the AI command        *)
(* interpreter (src/actions.py) and of the confirmation loop of            *)
(* src/main.py, on a POSIX filesystem.                                     *)
(*                                                                         *)
(* Text is modelled as a sequence of character codes, so that lower(),     *)
(* startswith(), endswith() and string comparison are computed as Python   *)
(* computes them.  A path is a sequence of names (each name a text); the   *)
(* empty sequence is "/".  A filesystem is a function from the canonical   *)
(* paths that exist to their nodes.                                        *)
(***************************************************************************)
EXTENDS Integers, Sequences, FiniteSets, TLC

VARIABLES
    fs,       \* the filesystem: canonical path -> node
    home,     \* Path.home().resolve()
    cwd,      \* the process's working directory
    rev,      \* the order in which os.scandir yields the entries of a directory
    locked,   \* paths the operating system refuses to rename or unlink
    steps,    \* number of calls made so far
    last,     \* the last call of the actions module: arguments, result, effects
    pc,       \* main(): position in the read-eval loop
    cmd,      \* main(): the command parsed from the oracle's answer
    answer,   \* main(): what the user typed at the confirmation prompt
    iter,     \* main(): number of the command being processed
    log       \* main(): the confirmation answers and the calls into actions, in order

vars == <<fs, home, cwd, rev, locked, steps, last, pc, cmd, answer, iter, log>>

(***************************************************************************)
(* Names and texts used by the scenarios.                                  *)
(***************************************************************************)
n_home == <<104, 111, 109, 101>>                      \* 'home'
n_u == <<117>>                                        \* 'u'
n_u2 == <<117, 50>>                                   \* 'u2'
n_etc == <<101, 116, 99>>                             \* 'etc'
n_usr == <<117, 115, 114>>                            \* 'usr'
n_bin == <<98, 105, 110>>                             \* 'bin'
n_srv == <<115, 114, 118>>                            \* 'srv'
n_docs == <<100, 111, 99, 115>>                       \* 'docs'
n_sub == <<115, 117, 98>>                             \* 'sub'
n_out == <<111, 117, 116>>                            \* 'out'
n_new == <<110, 101, 119>>                            \* 'new'
n_deep == <<100, 101, 101, 112>>                      \* 'deep'
n_nosuch == <<110, 111, 115, 117, 99, 104>>           \* 'nosuch'
n_ext == <<101, 120, 116>>                            \* 'ext'
n_a_txt == <<97, 46, 116, 120, 116>>                  \* 'a.txt'
n_b_TXT == <<98, 46, 84, 88, 84>>                     \* 'b.TXT'
n_c_pdf == <<99, 46, 112, 100, 102>>                  \* 'c.pdf'
n_esc_txt == <<101, 115, 99, 46, 116, 120, 116>>      \* 'esc.txt'
n_in_txt == <<105, 110, 46, 116, 120, 116>>           \* 'in.txt'
n_run_py == <<114, 117, 110, 46, 112, 121>>           \* 'run.py'
n_Tool_PY == <<84, 111, 111, 108, 46, 80, 89>>        \* 'Tool.PY'
n_data_txt == <<100, 97, 116, 97, 46, 116, 120, 116>> \* 'data.txt'
n_job_py == <<106, 111, 98, 46, 112, 121>>            \* 'job.py'
n_passwd == <<112, 97, 115, 115, 119, 100>>           \* 'passwd'
n_nul_py == <<97, 0, 46, 112, 121>>                   \* 'a\x00.py'
n_dotdot == <<46, 46>>                                \* '..'
n_L == <<76>>                                         \* 'L'
n_Report == <<82, 101, 112, 111, 114, 116>>           \* 'Report'
n_Report2 == <<82, 101, 112, 111, 114, 116, 32, 35, 50>>  \* 'Report #2'
n_A == <<65>>                                         \* 'A'
n_a == <<97>>                                         \* 'a'
n_b_txt == <<98, 46, 116, 120, 116>>                  \* 'b.txt'
n_a1 == <<97, 32, 40, 49, 41>>                        \* 'a (1)'
n_win == <<67, 58, 92, 87, 105, 110, 100, 111, 119, 115>>  \* 'C:\Windows'
n_pf == <<67, 58, 92, 80, 114, 111, 103, 114, 97, 109, 32, 70, 105, 108, 101, 115>>  \* 'C:\Program Files'
n_pf86 == <<67, 58, 92, 80, 114, 111, 103, 114, 97, 109, 32, 70, 105, 108, 101, 115, 32, 40, 120, 56, 54, 41>>  \* 'C:\Program Files (x86)'
n_recycle == <<67, 58, 92, 36, 82, 101, 99, 121, 99, 108, 101, 46, 66, 105, 110>>  \* 'C:\$Recycle.Bin'
n_svi == <<67, 58, 92, 83, 121, 115, 116, 101, 109, 32, 86, 111, 108, 117, 109, 101, 32, 73, 110, 102, 111, 114, 109, 97, 116, 105, 111, 110>>  \* 'C:\System Volume Information'
s_txt == <<116, 120, 116>>                            \* 'txt'
s_TXT == <<84, 88, 84>>                               \* 'TXT'
s_pdf == <<112, 100, 102>>                            \* 'pdf'
s_dotpy == <<46, 112, 121>>                           \* '.py'
s_DIR == <<91, 68, 73, 82, 32, 93, 32>>               \* '[DIR ] '
s_FILE == <<91, 70, 73, 76, 69, 93, 32>>              \* '[FILE] '
s_FILEtag == <<91, 70, 73, 76, 69, 93>>               \* '[FILE]'
s_dash == <<45>>                                      \* '-'
s_y == <<121>>                                        \* 'y'
s_Y == <<89>>                                         \* 'Y'
s_n == <<110>>                                        \* 'n'
s_yes == <<121, 101, 115>>                            \* 'yes'

(***************************************************************************)
(* Python's str operations, on sequences of character codes.               *)
(***************************************************************************)
lower(s) == [i \in 1..Len(s) |-> IF s[i] >= 65 /\ s[i] <= 90 THEN s[i] + 32 ELSE s[i]]

startswith(s, p) == Len(p) <= Len(s) /\ \A i \in 1..Len(p) : s[i] = p[i]

endswith(s, p) == Len(p) <= Len(s) /\ \A i \in 1..Len(p) : s[Len(s) - Len(p) + i] = p[i]

\* s < t in Python's comparison of str: by code point, a proper prefix first.
RECURSIVE str_lt(_, _)
str_lt(s, t) ==
    IF t = <<>> THEN FALSE
    ELSE IF s = <<>> THEN TRUE
    ELSE IF Head(s) # Head(t) THEN Head(s) < Head(t)
    ELSE str_lt(Tail(s), Tail(t))

\* str(n) for a non-negative integer.
RECURSIVE str_int(_)
str_int(n) == IF n < 10 THEN <<48 + n>> ELSE str_int(n \div 10) \o <<48 + (n % 10)>>

\* str(path) of an absolute POSIX path.
RECURSIVE str_path(_)
str_path(p) ==
    IF p = <<>> THEN <<47>>
    ELSE IF Len(p) = 1 THEN <<47>> \o p[1]
    ELSE str_path(SubSeq(p, 1, Len(p) - 1)) \o <<47>> \o p[Len(p)]

(***************************************************************************)
(* Paths and the filesystem.                                               *)
(***************************************************************************)
\* What the caller passes as a path: None or '' (kind "none"), a str, or a
\* pathlib.Path object.  abs and parts are what pathlib parses from the text.
NoPath == [kind |-> "none", abs |-> FALSE, parts |-> <<>>]

StrRel(parts) == [kind |-> "str", abs |-> FALSE, parts |-> parts]

StrAbs(parts) == [kind |-> "str", abs |-> TRUE, parts |-> parts]

PathObj(isabs, parts) == [kind |-> "path", abs |-> isabs, parts |-> parts]

Dir == [kind |-> "dir", target |-> <<>>, size |-> 0]

File(n) == [kind |-> "file", target |-> <<>>, size |-> n]

Link(t) == [kind |-> "link", target |-> t, size |-> 0]

parent(p) == IF p = <<>> THEN <<>> ELSE SubSeq(p, 1, Len(p) - 1)

basename(p) == p[Len(p)]

Remove(f, p) == [q \in DOMAIN f \ {p} |-> f[q]]

Put(f, p, node) == [q \in DOMAIN f \cup {p} |-> IF q = p THEN node ELSE f[q]]

\* The result of a call that may raise: ok = FALSE stands for the exception.
Ok(p) == [ok |-> TRUE, path |-> p]

Raised == [ok |-> FALSE, path |-> <<>>]

\* os.path.realpath(strict=False), which Path.resolve() calls: '..' steps to
\* the parent of the canonical prefix, a symlink is replaced by its target,
\* a component that does not exist is kept as written.  A chain of more than
\* MaxLinks symlinks is a loop, on which resolve() raises RuntimeError.
MaxLinks == 3

RECURSIVE realpath(_, _, _, _)
realpath(f, cur, rest, fuel) ==
    IF rest = <<>> THEN Ok(cur)
    ELSE LET c == Head(rest)
             p == Append(cur, c)
         IN  IF c = n_dotdot THEN realpath(f, parent(cur), Tail(rest), fuel)
             ELSE IF p \in DOMAIN f /\ f[p].kind = "link"
                  THEN IF fuel = 0 THEN Raised
                       ELSE realpath(f, <<>>, f[p].target \o Tail(rest), fuel - 1)
                  ELSE realpath(f, p, Tail(rest), fuel)

\* A NUL character in a path makes the os calls raise ValueError.
has_nul(parts) == \E i \in 1..Len(parts) : \E j \in 1..Len(parts[i]) : parts[i][j] = 0

\* Path.resolve(): a relative Path is resolved against the working directory.
Path_resolve(f, x) ==
    IF has_nul(x.parts) THEN Raised
    ELSE realpath(f, IF x.abs THEN <<>> ELSE cwd, x.parts, MaxLinks)

get_home_dir == home

resolve_path(f, x) ==
    IF x.kind = "none" THEN Ok(get_home_dir)
    ELSE IF has_nul(x.parts) THEN Raised
    ELSE IF x.abs THEN realpath(f, <<>>, x.parts, MaxLinks)
    ELSE realpath(f, get_home_dir, x.parts, MaxLinks)

\* A resolved Path, or the str of one, passed on to another function.
AsPath(p) == PathObj(TRUE, p)

AsStr(p) == StrAbs(p)

\* SYSTEM_DIRS as pathlib parses the entries on POSIX: a backslash is an
\* ordinary character, so the Windows entries are relative one-name paths.
SYSTEM_DIRS ==
    << PathObj(FALSE, <<n_win>>), PathObj(FALSE, <<n_pf>>), PathObj(FALSE, <<n_pf86>>),
       PathObj(TRUE, <<n_bin>>), PathObj(TRUE, <<n_usr>>), PathObj(TRUE, <<n_etc>>),
       PathObj(FALSE, <<n_recycle>>), PathObj(FALSE, <<n_svi>>) >>

\* os.path.expandvars with no variable named Recycle in the environment:
\* a reference to an unset variable is left as written.
expandvars(d) == d

\* PurePath.is_relative_to: other's parts are a prefix of the path's parts.
is_relative_to_text(p, other) == startswith(str_path(p), str_path(other))

is_relative_to(p, other) == Len(other) <= Len(p) /\ SubSeq(p, 1, Len(other)) = other

\* The blocklist loop of is_safe_path: True when the loop returns False (an
\* entry is a text prefix of the path, or resolving an entry raises).
blocklist_off(f, p) == FALSE

in_blocklist(f, p) ==
    LET path_str_lower == lower(str_path(p))
    IN  \E i \in 1..Len(SYSTEM_DIRS) :
            LET sys_path == Path_resolve(f, expandvars(SYSTEM_DIRS[i]))
            IN  \/ ~sys_path.ok
                \/ startswith(path_str_lower, lower(str_path(sys_path.path)))

is_safe_path(f, x) ==
    IF x.kind = "none" THEN TRUE
    ELSE LET r == IF x.kind = "path" THEN Path_resolve(f, x) ELSE resolve_path(f, x)
         IN  IF ~r.ok THEN FALSE
             ELSE IF ~is_relative_to(r.path, get_home_dir) THEN FALSE
             ELSE IF in_blocklist(f, r.path) THEN FALSE
             ELSE TRUE

\* os.path.exists, os.path.isdir (both follow symlinks) and os.path.islink.
exists(f, p) == LET r == realpath(f, <<>>, p, MaxLinks) IN r.ok /\ r.path \in DOMAIN f

isdir(f, p) ==
    LET r == realpath(f, <<>>, p, MaxLinks)
    IN  r.ok /\ r.path \in DOMAIN f /\ f[r.path].kind = "dir"

islink(f, p) == p \in DOMAIN f /\ f[p].kind = "link"

\* The names os.scandir yields for a directory, in the order the operating
\* system gives them: here by code point, ascending or (rev) descending.
children(f, d) == {basename(p) : p \in {q \in DOMAIN f : Len(q) = Len(d) + 1 /\ parent(q) = d}}

in_order(S, r) ==
    LET ranked == {<<x, Cardinality({y \in S : IF r THEN str_lt(x, y) ELSE str_lt(y, x)})>> : x \in S}
    IN  [i \in 1..Cardinality(S) |-> (CHOOSE e \in ranked : e[2] = i - 1)[1]]

scandir(f, d) == in_order(children(f, d), rev)

(***************************************************************************)
(* list_files                                                              *)
(***************************************************************************)
list_cap == 100

\* One line of the listing: f"[{type_str}] {entry.name} ({size_str})".
\* is_dir(), is_file() and stat() follow symlinks; a dangling symlink is
\* neither, so it is tagged FILE with size '-'.
format_entry(f, d, name) ==
    LET r == realpath(f, <<>>, Append(d, name), MaxLinks)
        there == r.ok /\ r.path \in DOMAIN f
        is_dir == there /\ f[r.path].kind = "dir"
        is_file == there /\ f[r.path].kind = "file"
        size_str == IF is_file THEN str_int(f[r.path].size) \o <<98>> ELSE s_dash
    IN  (IF is_dir THEN s_DIR ELSE s_FILE) \o name \o <<32, 40>> \o size_str \o <<41>>

\* The sort key of line 110, compared as Python compares tuples.
key_lt(x, y) ==
    LET fx == startswith(x, s_FILEtag)
        fy == startswith(y, s_FILEtag)
    IN  IF fx # fy THEN fy ELSE str_lt(lower(x), lower(y))

\* list.sort is stable: an item goes after every item whose key is not greater.
RECURSIVE insert_sorted(_, _)
insert_sorted(sorted, x) ==
    IF sorted = <<>> THEN <<x>>
    ELSE IF key_lt(x, Head(sorted)) THEN <<x>> \o sorted
    ELSE <<Head(sorted)>> \o insert_sorted(Tail(sorted), x)

RECURSIVE sort_items(_, _)
sort_items(items, acc) ==
    IF items = <<>> THEN acc
    ELSE sort_items(Tail(items), insert_sorted(acc, Head(items)))

first_n(s, n) == SubSeq(s, 1, IF Len(s) < n THEN Len(s) ELSE n)

ListResult(raised, err, items) == [raised |-> raised, err |-> err, items |-> items]

list_files(f, x) ==
    LET target_path == resolve_path(f, x)
    IN  IF ~target_path.ok THEN ListResult(TRUE, "", <<>>)
        ELSE IF ~is_safe_path(f, AsPath(target_path.path)) THEN ListResult(FALSE, "restricted", <<>>)
        ELSE IF ~exists(f, target_path.path) THEN ListResult(FALSE, "notfound", <<>>)
        ELSE IF ~isdir(f, target_path.path) THEN ListResult(FALSE, "notdir", <<>>)
        ELSE LET names == scandir(f, target_path.path)
                 items == [i \in 1..Len(names) |-> format_entry(f, target_path.path, names[i])]
             IN  ListResult(FALSE, "", first_n(sort_items(items, <<>>), list_cap))

(***************************************************************************)
(* find_files                                                              *)
(***************************************************************************)
max_count == 50

\* filename.lower().endswith(f".{file_type.lower()}"); no filter when
\* file_type is None or '' (modelled as the empty text).
matches(file_type, filename) ==
    IF file_type # <<>> THEN endswith(lower(filename), <<46>> \o lower(file_type)) ELSE TRUE

\* os.walk(start_dir), top-down, with the pruning find_files does on the
\* dirnames of a root the gate denies.  A symlink to a directory is listed
\* among the dirnames but never walked (followlinks=False).
RECURSIVE walk(_, _)
RECURSIVE walk_each(_, _, _)
walk(f, top) ==
    IF ~(top \in DOMAIN f /\ f[top].kind = "dir") THEN <<>>
    ELSE LET names == scandir(f, top)
             dirnames == SelectSeq(names, LAMBDA n : isdir(f, Append(top, n)))
             filenames == SelectSeq(names, LAMBDA n : ~isdir(f, Append(top, n)))
             safe == is_safe_path(f, AsStr(top))
             kept == IF safe THEN SelectSeq(dirnames, LAMBDA n : ~islink(f, Append(top, n)))
                     ELSE <<>>
         IN  <<[root |-> top, safe |-> safe, filenames |-> filenames]>> \o walk_each(f, top, kept)

walk_each(f, top, dirnames) ==
    IF dirnames = <<>> THEN <<>>
    ELSE walk(f, Append(top, Head(dirnames))) \o walk_each(f, top, Tail(dirnames))

\* The test that ends the enumeration.
reached_cap_off_by_one(count) == count > max_count

reached_cap(count) == count >= max_count

\* The loop over the filenames of one root; acc.done is the early return.
RECURSIVE scan_filenames(_, _, _, _)
scan_filenames(root, filenames, file_type, acc) ==
    IF filenames = <<>> \/ acc.done THEN acc
    ELSE LET hit == matches(file_type, Head(filenames))
             results == IF hit THEN Append(acc.results, Append(root, Head(filenames)))
                        ELSE acc.results
             count == IF hit THEN acc.count + 1 ELSE acc.count
         IN  scan_filenames(root, Tail(filenames), file_type,
                            [acc EXCEPT !.results = results, !.count = count,
                                        !.done = reached_cap(count)])

\* The loop over the roots os.walk yields; visited counts the roots taken.
RECURSIVE scan_walk(_, _, _)
scan_walk(w, file_type, acc) ==
    IF w = <<>> \/ acc.done THEN acc
    ELSE LET e == Head(w)
             seen == [acc EXCEPT !.visited = @ + 1]
         IN  IF ~e.safe THEN scan_walk(Tail(w), file_type, seen)
             ELSE scan_walk(Tail(w), file_type,
                            scan_filenames(e.root, e.filenames, file_type, seen))

FindResult(raised, err, files, visited) ==
    [raised |-> raised, err |-> err, files |-> files, visited |-> visited]

find_files(f, file_type, source_path) ==
    LET start_dir == resolve_path(f, source_path)
    IN  IF ~start_dir.ok THEN FindResult(TRUE, "", <<>>, 0)
        ELSE IF ~is_safe_path(f, source_path) /\ ~is_safe_path(f, AsPath(start_dir.path))
             THEN FindResult(FALSE, "restricted", <<>>, 0)
        ELSE IF ~exists(f, start_dir.path) THEN FindResult(FALSE, "notfound", <<>>, 0)
        ELSE LET acc == scan_walk(walk(f, start_dir.path), file_type,
                                  [results |-> <<>>, count |-> 0, done |-> FALSE, visited |-> 0])
             IN  FindResult(FALSE, "", acc.results, acc.visited)

(***************************************************************************)
(* move_files and delete_files                                             *)
(***************************************************************************)
\* os.makedirs: creates the missing ancestors, then the directory itself;
\* OSError when an ancestor is not a directory or the name is taken.
RECURSIVE makedirs(_, _)
makedirs(f, p) ==
    LET up == IF p # <<>> /\ ~exists(f, parent(p)) THEN makedirs(f, parent(p))
              ELSE [ok |-> TRUE, fs |-> f]
    IN  IF ~up.ok THEN up
        ELSE IF p \in DOMAIN up.fs \/ ~isdir(up.fs, parent(p)) THEN [ok |-> FALSE, fs |-> up.fs]
        ELSE [ok |-> TRUE, fs |-> Put(up.fs, p, Dir)]

\* shutil.move(src, dst) for a src that is not a directory: into dst when
\* dst is a directory (an error when the name is taken there), else onto
\* dst by os.rename, which replaces it.  A locked src can be neither renamed
\* nor copied, and the call raises with nothing changed.
shutil_move(f, src, dst) ==
    LET real_dst == IF isdir(f, dst) THEN Append(dst, basename(src)) ELSE dst
    IN  IF isdir(f, dst) /\ exists(f, real_dst) THEN [ok |-> FALSE, fs |-> f]
        ELSE IF src \in locked \/ src \notin DOMAIN f THEN [ok |-> FALSE, fs |-> f]
        ELSE [ok |-> TRUE, fs |-> Put(Remove(f, src), real_dst, f[src])]

\* os.remove(path): unlinks a file or a symlink.
os_remove(f, path) ==
    IF path \in locked \/ path \notin DOMAIN f \/ f[path].kind = "dir"
    THEN [ok |-> FALSE, fs |-> f]
    ELSE [ok |-> TRUE, fs |-> Remove(f, path)]

\* The check made on each enumerated file before it is moved or removed.
revalidate_skipped(f, file_path) == TRUE

revalidate(f, file_path) == is_safe_path(f, AsStr(file_path))

\* The for loops of move_files and delete_files.  done lists the files the
\* operation succeeded on, failed those it raised on (errors), skipped those
\* the gate denied.
BatchStart(f) == [fs |-> f, done |-> <<>>, failed |-> <<>>, skipped |-> <<>>]

RECURSIVE move_loop(_, _, _)
move_loop(files, dest_dir, acc) ==
    IF files = <<>> THEN acc
    ELSE LET file_path == Head(files)
         IN  IF ~revalidate(acc.fs, file_path)
             THEN move_loop(Tail(files), dest_dir, [acc EXCEPT !.skipped = Append(@, file_path)])
             ELSE LET m == shutil_move(acc.fs, file_path, dest_dir)
                  IN  IF m.ok
                      THEN move_loop(Tail(files), dest_dir,
                                     [acc EXCEPT !.fs = m.fs, !.done = Append(@, file_path)])
                      ELSE move_loop(Tail(files), dest_dir,
                                     [acc EXCEPT !.failed = Append(@, file_path)])

RECURSIVE delete_loop(_, _)
delete_loop(files, acc) ==
    IF files = <<>> THEN acc
    ELSE LET file_path == Head(files)
         IN  IF ~revalidate(acc.fs, file_path)
             THEN delete_loop(Tail(files), [acc EXCEPT !.skipped = Append(@, file_path)])
             ELSE LET m == os_remove(acc.fs, file_path)
                  IN  IF m.ok
                      THEN delete_loop(Tail(files),
                                       [acc EXCEPT !.fs = m.fs, !.done = Append(@, file_path)])
                      ELSE delete_loop(Tail(files), [acc EXCEPT !.failed = Append(@, file_path)])

\* The result of a batch operation: raised (an exception left the function),
\* err (the kind of error string returned, "" for the counts message),
\* fs (the filesystem afterwards), files (what find_files enumerated), and
\* the per-file outcome; count and errors are the two numbers in the message.
BatchResult(raised, err, f, files, acc) ==
    [raised |-> raised, err |-> err, fs |-> f, files |-> files,
     done |-> acc.done, failed |-> acc.failed, skipped |-> acc.skipped,
     count |-> Len(acc.done), errors |-> Len(acc.failed)]

move_files(f, file_type, destination_path, source_path) ==
    IF destination_path.kind = "none" THEN BatchResult(FALSE, "nodest", f, <<>>, BatchStart(f))
    ELSE LET src_dir == resolve_path(f, source_path)
             dest_dir == resolve_path(f, destination_path)
         IN  IF ~src_dir.ok \/ ~dest_dir.ok THEN BatchResult(TRUE, "", f, <<>>, BatchStart(f))
             ELSE IF ~is_safe_path(f, AsPath(src_dir.path)) \/ ~is_safe_path(f, AsPath(dest_dir.path))
                  THEN BatchResult(FALSE, "unsafe", f, <<>>, BatchStart(f))
             ELSE LET made == IF ~exists(f, dest_dir.path) THEN makedirs(f, dest_dir.path)
                              ELSE [ok |-> TRUE, fs |-> f]
                  IN  IF ~made.ok THEN BatchResult(FALSE, "mkdirs", made.fs, <<>>, BatchStart(f))
                      ELSE LET files_to_move == find_files(made.fs, file_type, source_path)
                           IN  IF files_to_move.err # ""
                               THEN BatchResult(FALSE, files_to_move.err, made.fs, <<>>, BatchStart(f))
                               ELSE LET acc == move_loop(files_to_move.files, dest_dir.path,
                                                         BatchStart(made.fs))
                                    IN  BatchResult(FALSE, "", acc.fs, files_to_move.files, acc)

delete_files(f, file_type, source_path) ==
    LET src_dir == resolve_path(f, source_path)
    IN  IF ~src_dir.ok THEN BatchResult(TRUE, "", f, <<>>, BatchStart(f))
        ELSE IF ~is_safe_path(f, AsPath(src_dir.path))
             THEN BatchResult(FALSE, "unsafe", f, <<>>, BatchStart(f))
        ELSE LET files_to_delete == find_files(f, file_type, source_path)
             IN  IF files_to_delete.err # ""
                 THEN BatchResult(FALSE, files_to_delete.err, f, <<>>, BatchStart(f))
                 ELSE LET acc == delete_loop(files_to_delete.files, BatchStart(f))
                      IN  BatchResult(FALSE, "", acc.fs, files_to_delete.files, acc)

(***************************************************************************)
(* execute_python_file                                                     *)
(***************************************************************************)
\* What subprocess.run can do: return, raise TimeoutExpired after the 30 s
\* timeout, or raise OSError because the interpreter cannot be launched.
RunOutcomes == {"returned", "timeout", "oserror"}

\* launched: subprocess.run was called; text: the kind of string returned.
ExecResult(raised, launched, text) == [raised |-> raised, launched |-> launched, text |-> text]

execute_python_file(f, path, outcome) ==
    IF path.kind = "none" THEN ExecResult(FALSE, FALSE, "Error: No file specified")
    ELSE LET target_path == resolve_path(f, path)
         IN  IF ~target_path.ok THEN ExecResult(TRUE, FALSE, "")
             ELSE IF ~endswith(lower(str_path(target_path.path)), s_dotpy)
                  THEN ExecResult(FALSE, FALSE, "Error: Only .py")
             ELSE IF ~is_safe_path(f, AsPath(target_path.path))
                  THEN ExecResult(FALSE, FALSE, "Error: Unsafe path")
             ELSE IF ~exists(f, target_path.path)
                  THEN ExecResult(FALSE, FALSE, "Error: not found")
             ELSE IF outcome = "returned" THEN ExecResult(FALSE, TRUE, "Output")
             ELSE ExecResult(FALSE, TRUE, "Execution failed")

(***************************************************************************)
(* The filesystem the calls are made on.                                   *)
(***************************************************************************)
p_home == <<n_home, n_u>>

p_docs == <<n_home, n_u, n_docs>>

p_out == <<n_home, n_u, n_out>>

p_other == <<n_home, n_u2>>

Tree ==
    (<<>> :> Dir)
    @@ (<<n_etc>> :> Dir) @@ (<<n_etc, n_passwd>> :> File(7)) @@ (<<n_etc, n_job_py>> :> File(3))
    @@ (<<n_usr>> :> Dir) @@ (<<n_usr, n_bin>> :> Dir) @@ (<<n_bin>> :> Link(<<n_usr, n_bin>>))
    @@ (<<n_srv>> :> Dir) @@ (<<n_srv, n_data_txt>> :> File(9))
    @@ (<<n_home>> :> Dir) @@ (p_home :> Dir)
    @@ (p_other :> Dir) @@ (Append(p_other, n_a_txt) :> File(4)) @@ (Append(p_other, n_job_py) :> File(5))
    @@ (Append(p_home, n_run_py) :> File(12)) @@ (Append(p_home, n_Tool_PY) :> File(1))
    @@ (Append(p_home, n_ext) :> Link(<<n_srv>>))
    @@ (p_docs :> Dir)
    @@ (Append(p_docs, n_a_txt) :> File(5)) @@ (Append(p_docs, n_b_TXT) :> File(10))
    @@ (Append(p_docs, n_c_pdf) :> File(2))
    @@ (Append(p_docs, n_esc_txt) :> Link(<<n_srv, n_data_txt>>))
    @@ (Append(p_docs, n_in_txt) :> Link(Append(p_home, n_run_py)))
    @@ (Append(p_docs, n_sub) :> Dir) @@ (<<n_home, n_u, n_docs, n_sub, n_a_txt>> :> File(6))
    @@ (p_out :> Dir) @@ (Append(p_out, n_a_txt) :> File(8))

\* The home directory is the user's, or has been widened to the whole tree.
Homes == {p_home, <<>>}

Cwds == {p_home, <<n_srv>>}

Locks == {{}, {Append(p_docs, n_b_TXT)}}

\* None (or ''), 'txt', 'TXT', 'pdf'.
FileTypes == {<<>>, s_txt, s_TXT, s_pdf}

GateInputs ==
    { NoPath, StrRel(<<n_docs>>), StrRel(<<n_docs, n_nosuch>>), StrRel(<<n_dotdot, n_u2>>),
      StrRel(<<n_dotdot, n_dotdot, n_etc, n_passwd>>), StrAbs(<<n_etc, n_passwd>>),
      StrAbs(<<n_etc>>), StrAbs(<<n_bin>>), StrAbs(<<n_usr, n_bin>>), StrAbs(<<n_srv>>),
      StrAbs(<<n_home, n_u2, n_a_txt>>), StrAbs(p_home), StrAbs(<<>>),
      StrRel(<<n_ext, n_data_txt>>), StrRel(<<n_docs, n_esc_txt>>), StrRel(<<n_docs, n_in_txt>>),
      StrRel(<<n_win>>), StrRel(<<n_nul_py>>),
      PathObj(FALSE, <<>>), PathObj(FALSE, <<n_docs>>), PathObj(TRUE, p_docs),
      PathObj(TRUE, <<n_etc, n_passwd>>), PathObj(FALSE, <<n_win>>) }

SourceInputs ==
    { NoPath, StrRel(<<n_docs>>), StrAbs(p_other), StrRel(<<n_nosuch>>), StrRel(<<n_ext>>),
      StrAbs(<<n_etc>>) }

DestInputs ==
    { NoPath, StrRel(<<n_out>>), StrRel(<<n_new>>), StrRel(<<n_new, n_deep>>),
      StrAbs(<<n_srv>>), StrRel(<<n_run_py, n_sub>>) }

BatchFileTypes == {<<>>, s_txt}

ListInputs ==
    { NoPath, StrRel(<<n_L>>), StrRel(<<n_L, n_a>>), StrRel(<<n_nosuch>>), StrAbs(<<n_etc>>),
      StrRel(<<n_nul_py>>) }

FindInputs == {NoPath, StrAbs(<<n_srv>>), StrAbs(<<n_etc>>), StrRel(<<n_nosuch>>), StrRel(<<n_nul_py>>)}

ExecInputs ==
    { NoPath, StrRel(<<n_run_py>>), StrRel(<<n_Tool_PY>>), StrRel(<<n_docs, n_a_txt>>),
      StrRel(<<n_docs, n_in_txt>>), StrRel(<<n_nosuch, n_run_py>>), StrAbs(Append(p_other, n_job_py)),
      StrAbs(<<n_etc, n_job_py>>), StrRel(<<n_nul_py>>) }

\* The number of batch operations made in one run.
MaxSteps == 1

(***************************************************************************)
(* The calls into the actions module, one action per function.  last is    *)
(* the record of the call: its arguments, the filesystem before it, and    *)
(* what the function returned and did.                                     *)
(***************************************************************************)
NoCall(f) ==
    [op |-> "none", src |-> NoPath, dest |-> NoPath, ft |-> <<>>, before |-> f,
     safe |-> FALSE, raised |-> FALSE, err |-> "", items |-> <<>>, visited |-> 0,
     files |-> <<>>, done |-> <<>>, failed |-> <<>>, skipped |-> <<>>,
     count |-> 0, errors |-> 0, launched |-> FALSE, outcome |-> "", text |-> ""]

NoCommand == [action |-> "none", ft |-> <<>>, source |-> NoPath, dest |-> NoPath]

MainIdle == pc = "input" /\ cmd = NoCommand /\ answer = <<>> /\ iter = 0 /\ log = <<>>

Init ==
    /\ fs = Tree
    /\ home \in Homes
    /\ cwd \in Cwds
    /\ rev \in BOOLEAN
    /\ locked \in Locks
    /\ steps = 0
    /\ last = NoCall(fs)
    /\ MainIdle

Frame == UNCHANGED <<home, cwd, rev, locked, pc, cmd, answer, iter, log>>

CheckSafe ==
    \E x \in GateInputs :
        /\ last' = [NoCall(fs) EXCEPT !.op = "is_safe_path", !.src = x, !.safe = is_safe_path(fs, x)]
        /\ UNCHANGED <<fs, steps>>
        /\ Frame

ListFiles ==
    \E x \in ListInputs :
        LET r == list_files(fs, x)
        IN  /\ last' = [NoCall(fs) EXCEPT !.op = "list", !.src = x, !.raised = r.raised,
                                          !.err = r.err, !.items = r.items]
            /\ UNCHANGED <<fs, steps>>
            /\ Frame

FindFiles ==
    \E ft \in FileTypes, x \in FindInputs :
        LET r == find_files(fs, ft, x)
        IN  /\ last.op = "none"
            /\ last' = [NoCall(fs) EXCEPT !.op = "find", !.src = x, !.ft = ft, !.raised = r.raised,
                                          !.err = r.err, !.files = r.files, !.visited = r.visited]
            /\ UNCHANGED <<fs, steps>>
            /\ Frame

Batch(op, ft, d, s, r) ==
    [NoCall(fs) EXCEPT !.op = op, !.src = s, !.dest = d, !.ft = ft, !.raised = r.raised,
                       !.err = r.err, !.files = r.files, !.done = r.done, !.failed = r.failed,
                       !.skipped = r.skipped, !.count = r.count, !.errors = r.errors]

MoveFiles ==
    \E ft \in BatchFileTypes, d \in DestInputs, s \in SourceInputs :
        LET r == move_files(fs, ft, d, s)
        IN  /\ steps < MaxSteps
            /\ steps' = steps + 1
            /\ last' = Batch("move", ft, d, s, r)
            /\ fs' = r.fs
            /\ Frame

DeleteFiles ==
    \E ft \in BatchFileTypes, s \in SourceInputs :
        LET r == delete_files(fs, ft, s)
        IN  /\ steps < MaxSteps
            /\ steps' = steps + 1
            /\ last' = Batch("delete", ft, NoPath, s, r)
            /\ fs' = r.fs
            /\ Frame

ExecutePythonFile ==
    \E x \in ExecInputs, outcome \in RunOutcomes :
        LET r == execute_python_file(fs, x, outcome)
        IN  /\ last' = [NoCall(fs) EXCEPT !.op = "execute", !.src = x, !.raised = r.raised,
                                          !.launched = r.launched, !.outcome = outcome,
                                          !.text = r.text]
            /\ UNCHANGED <<fs, steps>>
            /\ Frame

\* Batch operations (move_files, delete_files) on the tree.
Next == MoveFiles \/ DeleteFiles

InitBatch == Init /\ cwd = p_home

Spec == InitBatch /\ [][Next]_vars

\* The safety gate alone.
SpecGate == Init /\ [][CheckSafe]_vars

\* execute_python_file alone.
SpecExec == Init /\ [][ExecutePythonFile]_vars

(***************************************************************************)
(* Listings: a directory L under the home root with any of these entries.  *)
(***************************************************************************)
p_L == <<n_home, n_u, n_L>>

ListNodes ==
    (n_Report :> Dir) @@ (n_Report2 :> Dir) @@ (n_A :> Dir)
    @@ (n_a :> File(12)) @@ (n_a1 :> File(5)) @@ (n_a_txt :> File(7)) @@ (n_b_txt :> File(3))

ListTree(S) ==
    [p \in DOMAIN Tree \cup {p_L} \cup {Append(p_L, n) : n \in S} |->
        IF p \in DOMAIN Tree THEN Tree[p]
        ELSE IF p = p_L THEN Dir
        ELSE ListNodes[basename(p)]]

InitList ==
    /\ fs \in {ListTree(S) : S \in SUBSET DOMAIN ListNodes}
    /\ home = p_home /\ cwd = p_home /\ rev \in BOOLEAN /\ locked = {}
    /\ steps = 0 /\ last = NoCall(fs) /\ MainIdle

SpecList == InitList /\ [][ListFiles]_vars

(***************************************************************************)
(* Enumeration: trees with about max_count files.  /srv holds n files,     *)
(* /srv/sub holds SubFiles more, /etc (denylisted) holds DeniedFiles.      *)
(***************************************************************************)
SubFiles == 2

DeniedFiles == 2

\* The i-th file name: f<i>.txt or f<i>.TXT, and every other one f<i>.pdf
\* when the tree mixes extensions.
FileName(i, mix) ==
    <<102>> \o str_int(i) \o
    (IF mix /\ i % 2 = 0 THEN <<46>> \o s_pdf
     ELSE IF i % 3 = 0 THEN <<46>> \o s_TXT ELSE <<46>> \o s_txt)

FindTree(n, sub, denied, mix) ==
    LET dirs == {<<>>, <<n_srv>>, <<n_srv, n_sub>>, <<n_etc>>}
        files == {Append(<<n_srv>>, FileName(i, mix)) : i \in 1..n}
                 \cup {Append(<<n_srv, n_sub>>, FileName(i, mix)) : i \in 1..sub}
                 \cup {Append(<<n_etc>>, FileName(i, mix)) : i \in 1..denied}
    IN  [p \in dirs \cup files |-> IF p \in dirs THEN Dir ELSE File(1)]

InitFind ==
    /\ \E n \in {1, max_count - 1, max_count, max_count + 1}, sub \in {0, SubFiles},
          denied \in {0, DeniedFiles}, mix \in BOOLEAN :
           fs = FindTree(n, sub, denied, mix)
    /\ home \in {<<>>, <<n_srv>>} /\ cwd = <<n_srv>> /\ rev \in BOOLEAN /\ locked = {}
    /\ steps = 0 /\ last = NoCall(fs) /\ MainIdle

SpecFind == InitFind /\ [][FindFiles]_vars

(***************************************************************************)
(* main(): the read-eval loop.  pc is "input" at the prompt for a command, *)
(* "confirm" at the confirmation prompt, "done" after exit.                *)
(***************************************************************************)
\* The commands the oracle answers with (parsed), next to no command at all.
Command(action, ft, source, dest) == [action |-> action, ft |-> ft, source |-> source, dest |-> dest]

Commands ==
    { Command("move", s_txt, StrRel(<<n_docs>>), StrRel(<<n_out>>)),
      Command("delete", s_txt, StrRel(<<n_docs>>), NoPath),
      Command("execute", <<>>, StrRel(<<n_run_py>>), NoPath),
      Command("execute", <<>>, NoPath, NoPath),
      Command("list", <<>>, StrRel(<<n_docs>>), NoPath),
      Command("find", s_pdf, NoPath, NoPath),
      Command("error", <<>>, NoPath, NoPath),
      Command("rename", <<>>, StrRel(<<n_docs>>), NoPath) }

\* What the user may type at the confirmation prompt.
Answers == {s_y, s_Y, s_n, s_yes, <<>>}

\* The number of commands typed in one run.
MaxCommands == 2

InitMain ==
    /\ fs = Tree /\ home = p_home /\ cwd = p_home /\ rev = FALSE /\ locked \in Locks
    /\ steps = 0 /\ last = NoCall(fs) /\ MainIdle

Called(fn, i, c) == [ev |-> "call", fn |-> fn, iter |-> i, action |-> c.action, text |-> <<>>]

Answered(text) == [ev |-> "answer", fn |-> "", iter |-> iter, action |-> cmd.action, text |-> text]

MainFrame == UNCHANGED <<home, cwd, rev, locked, steps>>

\* 'exit' or 'quit' ends the loop.
Exit ==
    /\ pc = "input" /\ pc' = "done"
    /\ UNCHANGED <<fs, last, cmd, answer, iter, log>> /\ MainFrame

\* The oracle call raises, or its answer is not JSON: the loop goes on.
NoProposal ==
    /\ pc = "input" /\ iter < MaxCommands
    /\ iter' = iter + 1 /\ cmd' = NoCommand
    /\ UNCHANGED <<fs, last, pc, answer, log>> /\ MainFrame

\* A command that is carried out, or refused, without a confirmation.
Propose(c) == pc = "input" /\ iter < MaxCommands /\ iter' = iter + 1 /\ cmd' = c

ErrorAction ==
    \E c \in Commands :
        /\ c.action = "error" /\ Propose(c)
        /\ UNCHANGED <<fs, last, pc, answer, log>> /\ MainFrame

UnknownAction ==
    \E c \in Commands :
        /\ c.action \notin {"error", "list", "find", "move", "delete", "execute"} /\ Propose(c)
        /\ UNCHANGED <<fs, last, pc, answer, log>> /\ MainFrame

ListAction ==
    \E c \in Commands :
        LET r == list_files(fs, c.source)
        IN  /\ c.action = "list" /\ Propose(c)
            /\ log' = Append(log, Called("list_files", iter + 1, c))
            /\ last' = [NoCall(fs) EXCEPT !.op = "list", !.src = c.source, !.raised = r.raised,
                                          !.err = r.err, !.items = r.items]
            /\ UNCHANGED <<fs, pc, answer>> /\ MainFrame

FindAction ==
    \E c \in Commands :
        LET r == find_files(fs, c.ft, c.source)
        IN  /\ c.action = "find" /\ Propose(c)
            /\ log' = Append(log, Called("find_files", iter + 1, c))
            /\ last' = [NoCall(fs) EXCEPT !.op = "find", !.src = c.source, !.ft = c.ft,
                                          !.raised = r.raised, !.err = r.err, !.files = r.files,
                                          !.visited = r.visited]
            /\ UNCHANGED <<fs, pc, answer>> /\ MainFrame

\* move, delete and execute stop at the confirmation prompt.
AskConfirm ==
    \E c \in Commands :
        /\ c.action \in {"move", "delete", "execute"} /\ Propose(c)
        /\ pc' = "confirm"
        /\ UNCHANGED <<fs, last, answer, log>> /\ MainFrame

\* The test on the lowered answer.
confirmed_any(confirm) == TRUE

confirmed(confirm) == confirm = s_y

\* Any answer that is not 'y' once lowered: "Action cancelled."
Cancel ==
    \E a \in Answers :
        /\ pc = "confirm" /\ ~confirmed(lower(a))
        /\ answer' = a /\ log' = Append(log, Answered(a)) /\ pc' = "input"
        /\ UNCHANGED <<fs, last, cmd, iter>> /\ MainFrame

ConfirmMove ==
    \E a \in Answers :
        LET r == move_files(fs, cmd.ft, cmd.dest, cmd.source)
        IN  /\ pc = "confirm" /\ confirmed(lower(a)) /\ cmd.action = "move"
            /\ answer' = a /\ pc' = "input"
            /\ log' = log \o <<Answered(a), Called("move_files", iter, cmd)>>
            /\ last' = Batch("move", cmd.ft, cmd.dest, cmd.source, r)
            /\ fs' = r.fs
            /\ UNCHANGED <<cmd, iter>> /\ MainFrame

ConfirmDelete ==
    \E a \in Answers :
        LET r == delete_files(fs, cmd.ft, cmd.source)
        IN  /\ pc = "confirm" /\ confirmed(lower(a)) /\ cmd.action = "delete"
            /\ answer' = a /\ pc' = "input"
            /\ log' = log \o <<Answered(a), Called("delete_files", iter, cmd)>>
            /\ last' = Batch("delete", cmd.ft, NoPath, cmd.source, r)
            /\ fs' = r.fs
            /\ UNCHANGED <<cmd, iter>> /\ MainFrame

\* execute without a source_path prints an error and calls nothing.
ConfirmExecute ==
    \E a \in Answers, outcome \in RunOutcomes :
        LET r == execute_python_file(fs, cmd.source, outcome)
            target_file == cmd.source
        IN  /\ pc = "confirm" /\ confirmed(lower(a)) /\ cmd.action = "execute"
            /\ answer' = a /\ pc' = "input"
            /\ IF target_file.kind = "none"
               THEN /\ log' = Append(log, Answered(a))
                    /\ last' = last
               ELSE /\ log' = log \o <<Answered(a), Called("execute_python_file", iter, cmd)>>
                    /\ last' = [NoCall(fs) EXCEPT !.op = "execute", !.src = cmd.source,
                                                  !.raised = r.raised, !.launched = r.launched,
                                                  !.outcome = outcome, !.text = r.text]
            /\ UNCHANGED <<fs, cmd, iter>> /\ MainFrame

NextMain ==
    \/ Exit \/ NoProposal \/ ErrorAction \/ UnknownAction \/ ListAction \/ FindAction
    \/ AskConfirm \/ Cancel \/ ConfirmMove \/ ConfirmDelete \/ ConfirmExecute

SpecMain == InitMain /\ [][NextMain]_vars

(***************************************************************************)
(* Properties of the safety gate.                                          *)
(***************************************************************************)
\* p is root or a descendant of root: root is reached from p by going up.
RECURSIVE Descends(_, _)
Descends(p, root) == p = root \/ (p # <<>> /\ Descends(parent(p), root))

\* The canonical path an input stands for: a str is resolved by resolve_path,
\* a Path object by its own resolve().
Canonical(f, x) == IF x.kind = "path" THEN Path_resolve(f, x) ELSE resolve_path(f, x)

\* C1 (containment): whenever is_safe_path returns True, the input resolves,
\* and its canonical path is the home root or a descendant of it; the empty
\* input is accepted and resolves to the home root itself.
C1_Containment ==
    last.op = "is_safe_path" =>
        /\ last.safe =>
               LET c == Canonical(fs, last.src) IN c.ok /\ Descends(c.path, home)
        /\ last.src.kind = "none" => last.safe /\ resolve_path(fs, last.src) = Ok(home)

\* An input that reaches a file inside the root through '..' or a symlink is
\* accepted, with a root that is not the whole tree.
C1_Witness ==
    /\ last.op = "is_safe_path" /\ last.safe /\ home = p_home
    /\ last.src = StrRel(<<n_docs, n_in_txt>>)
    /\ Canonical(fs, last.src).path = Append(p_home, n_run_py)

\* The canonical path p is, or lies under, the directory a SYSTEM_DIRS entry
\* names.
UnderSystemDir(f, p) ==
    \E i \in 1..Len(SYSTEM_DIRS) :
        LET d == Path_resolve(f, SYSTEM_DIRS[i]) IN d.ok /\ Descends(p, d.path)

\* C2 (denylist wins): a path that is, or lies under, a SYSTEM_DIRS entry is
\* never reported safe, also when it lies under the home root.
C2_DenylistWins ==
    (last.op = "is_safe_path" /\ last.src.kind # "none") =>
        LET c == Canonical(fs, last.src)
        IN  (c.ok /\ UnderSystemDir(fs, c.path)) => ~last.safe

\* With the root widened to the whole tree, /etc/passwd lies under the root
\* and under a denylisted directory, and is denied.
C2_Witness ==
    /\ last.op = "is_safe_path" /\ home = <<>> /\ ~last.safe
    /\ last.src = StrAbs(<<n_etc, n_passwd>>)
    /\ Descends(Canonical(fs, last.src).path, home)
    /\ UnderSystemDir(fs, Canonical(fs, last.src).path)

(***************************************************************************)
(* Properties of delete_files and move_files.                              *)
(***************************************************************************)
InSeq(x, s) == \E i \in 1..Len(s) : s[i] = x

\* C3 (delete outside the root): a delete whose source resolves outside the
\* home root returns the unsafe-path error and leaves the filesystem as it
\* was.
C3_DeleteOutsideRejected ==
    last.op = "delete" =>
        LET src_dir == resolve_path(last.before, last.src)
        IN  (src_dir.ok /\ ~Descends(src_dir.path, home)) =>
                /\ ~last.raised /\ last.err = "unsafe"
                /\ last.done = <<>> /\ last.failed = <<>>
                /\ fs = last.before

\* A delete on a directory outside the root that exists and holds files.
C3_Witness ==
    /\ last.op = "delete" /\ last.src = StrAbs(p_other) /\ home = p_home
    /\ last.err = "unsafe" /\ Append(p_other, n_a_txt) \in DOMAIN fs

\* C4 (per-file revalidation): in a batch, a file the gate denies is neither
\* moved nor removed (it is not even attempted, and is still in place,
\* unchanged), and every other enumerated file is attempted.
C4_PerFileRevalidation ==
    (last.op \in {"move", "delete"} /\ ~last.raised /\ last.err = "") =>
        \A i \in 1..Len(last.files) :
            LET file_path == last.files[i]
            IN  IF ~is_safe_path(last.before, AsStr(file_path))
                THEN /\ ~InSeq(file_path, last.done) /\ ~InSeq(file_path, last.failed)
                     /\ file_path \in DOMAIN fs /\ fs[file_path] = last.before[file_path]
                ELSE InSeq(file_path, last.done) \/ InSeq(file_path, last.failed)

\* A batch over docs: the symlink esc.txt, which points outside the root, is
\* left alone, and other files of the batch are moved or removed.
C4_Witness ==
    /\ last.op \in {"move", "delete"} /\ home = p_home
    /\ InSeq(Append(p_docs, n_esc_txt), last.files)
    /\ InSeq(Append(p_docs, n_esc_txt), last.skipped)
    /\ Append(p_docs, n_esc_txt) \in DOMAIN fs
    /\ InSeq(Append(p_docs, n_a_txt), last.done)
    /\ Append(p_docs, n_a_txt) \notin DOMAIN fs

\* C6 (move batch accounting), as claimed: the two counts of the result
\* account for every enumerated file; a file counted as moved is in the
\* destination and gone from the source, a file counted as failed is still
\* at its source.
C6_MoveAccounting ==
    (last.op = "move" /\ ~last.raised /\ last.err = "") =>
        LET dest_dir == resolve_path(last.before, last.dest).path
        IN  /\ last.count + last.errors = Len(last.files)
            /\ \A i \in 1..Len(last.done) :
                   /\ Append(dest_dir, basename(last.done[i])) \in DOMAIN fs
                   /\ last.done[i] \notin DOMAIN fs
            /\ \A i \in 1..Len(last.failed) : last.failed[i] \in DOMAIN fs

\* C10 (move leaves the filesystem unchanged on error), as claimed.
C10_MoveErrorNoChange ==
    (last.op = "move" /\ ~last.raised /\ last.err # "") => fs = last.before

(***************************************************************************)
(* Properties of execute_python_file.                                      *)
(***************************************************************************)
\* C9 (execute gating), as claimed: the subprocess is launched exactly when
\* the path is not empty, its resolved path ends in '.py' whatever the case,
\* passes the gate and exists; otherwise an error string is returned; and a
\* timeout or a launch failure comes back as the 'Execution failed' string.
C9_ExecuteGating ==
    last.op = "execute" =>
        LET r == resolve_path(fs, last.src)
            allowed == /\ last.src.kind # "none"
                       /\ r.ok
                       /\ endswith(lower(str_path(r.path)), s_dotpy)
                       /\ is_safe_path(fs, AsPath(r.path))
                       /\ r.path \in DOMAIN fs
        IN  /\ last.launched <=> allowed
            /\ ~last.raised
            /\ ~last.launched =>
                   last.text \in {"Error: No file specified", "Error: Only .py",
                                  "Error: Unsafe path", "Error: not found"}
            /\ (last.launched /\ last.outcome \in {"timeout", "oserror"}) =>
                   last.text = "Execution failed"

(***************************************************************************)
(* Properties of find_files and list_files.                                *)
(***************************************************************************)
\* The files an enumeration from start can reach: not a directory, under
\* start, with every directory from start down to the file's own a real
\* directory (not a symlink) that the gate approves.
Reachable(f, start, file_type) ==
    { p \in DOMAIN f :
        /\ Len(p) > Len(start) /\ Descends(p, start)
        /\ ~isdir(f, p)
        /\ file_type # <<>> => endswith(lower(basename(p)), <<46>> \o lower(file_type))
        /\ \A k \in Len(start)..(Len(p) - 1) :
               LET a == SubSeq(p, 1, k)
               IN  a \in DOMAIN f /\ f[a].kind = "dir" /\ is_safe_path(f, AsStr(a)) }

\* C7 (enumeration cap): find_files returns min(max_count, number of
\* reachable matching files) paths, all different, each a reachable matching
\* file; and when the cap is reached, the root holding the last returned
\* file is the last root taken from the walk.
C7_EnumerationCap ==
    (last.op = "find" /\ ~last.raised /\ last.err = "") =>
        LET start == resolve_path(fs, last.src).path
            all == Reachable(fs, start, last.ft)
            n == Len(last.files)
        IN  /\ n = (IF Cardinality(all) < max_count THEN Cardinality(all) ELSE max_count)
            /\ \A i \in 1..n : last.files[i] \in all
            /\ \A i, j \in 1..n : i # j => last.files[i] # last.files[j]
            /\ Cardinality(all) > max_count =>
                   /\ n = max_count
                   /\ walk(fs, start)[last.visited].root = parent(last.files[n])

\* More files match than the cap, some under a directory the gate prunes,
\* and the walk stops before its last root.
C7_Witness ==
    /\ last.op = "find" /\ last.err = "" /\ Len(last.files) = max_count
    /\ Cardinality(Reachable(fs, resolve_path(fs, last.src).path, last.ft)) > max_count
    /\ last.visited < Len(walk(fs, resolve_path(fs, last.src).path))
    /\ Append(<<n_etc>>, FileName(1, FALSE)) \in DOMAIN fs

\* The name shown on a line of a listing, and whether the line is a file's.
EntryName(line) ==
    LET open == CHOOSE i \in 1..Len(line) :
                    line[i] = 40 /\ \A j \in (i + 1)..Len(line) : line[j] # 40
    IN  SubSeq(line, 8, open - 2)

IsFileLine(line) == SubSeq(line, 1, 6) = s_FILEtag

\* C8 (list ordering), as claimed: the listing holds the immediate children
\* of the directory (at most list_cap of them), every directory before every
\* file, and within each group the names in case-insensitive order.
C8_ListOrdering ==
    (last.op = "list" /\ ~last.raised /\ last.err = "") =>
        LET d == resolve_path(fs, last.src).path
            n == Len(last.items)
            kids == children(fs, d)
        IN  /\ n = (IF Cardinality(kids) < list_cap THEN Cardinality(kids) ELSE list_cap)
            /\ \A i \in 1..n : EntryName(last.items[i]) \in kids
            /\ \A i, j \in 1..n :
                   i < j =>
                       /\ ~(IsFileLine(last.items[i]) /\ ~IsFileLine(last.items[j]))
                       /\ IsFileLine(last.items[i]) = IsFileLine(last.items[j]) =>
                              ~str_lt(lower(EntryName(last.items[j])),
                                      lower(EntryName(last.items[i])))

(***************************************************************************)
(* Properties of main().                                                   *)
(***************************************************************************)
Guarded == {"move_files", "delete_files", "execute_python_file"}

\* C5 (confirmation before mutation): a call of move_files, delete_files or
\* execute_python_file comes after an answer 'y' (whatever its case) given at
\* the prompt of the same command; a command answered otherwise has no such
\* call; and a command whose action is 'error' makes no call at all.
C5_ConfirmationFirst ==
    /\ \A i \in 1..Len(log) :
           (log[i].ev = "call" /\ log[i].fn \in Guarded) =>
               \E k \in 1..(i - 1) :
                   /\ log[k].ev = "answer" /\ log[k].iter = log[i].iter
                   /\ lower(log[k].text) = s_y
    /\ \A k \in 1..Len(log) :
           (log[k].ev = "answer" /\ lower(log[k].text) # s_y) =>
               \A i \in 1..Len(log) :
                   (log[i].ev = "call" /\ log[i].iter = log[k].iter) => log[i].fn \notin Guarded
    /\ \A i \in 1..Len(log) : log[i].ev = "call" => log[i].action # "error"
    /\ (cmd.action = "error" /\ iter > 0) => \A i \in 1..Len(log) : log[i].iter # iter

\* A delete that was confirmed and removed a file, after a command that was
\* answered 'n' and changed nothing.
C5_Witness ==
    /\ Len(log) = 3
    /\ log[1].ev = "answer" /\ log[1].text = s_n /\ log[1].iter = 1
    /\ log[2].ev = "answer" /\ log[2].text = s_y /\ log[2].iter = 2
    /\ log[3].ev = "call" /\ log[3].fn = "delete_files" /\ log[3].iter = 2
    /\ Append(p_docs, n_a_txt) \notin DOMAIN fs

====
